---- MODULE Spec2Model ----
(***************************************************************************)
(* Payment-Dashboard: the TrueLayer gateway integration of the server.     *)
(*                                                                         *)
(*   Spec       the payment routes (server/src/routes/payments.ts) over    *)
(*              the record store (payments.repository) and the gateway:    *)
(*              POST /, POST /:id/refresh-status, GET /:id, DELETE /:id,   *)
(*              each handler cut at its await points.                      *)
(*              The server starts up first: the modules are evaluated      *)
(*              (the TrueLayerService singleton is constructed), then the  *)
(*              server listens.                                            *)
(*   SpecService  one createPayment / getPayment invocation of the service *)
(*              from its call to its return or throw.                      *)
(*   SpecDashboard  the client: AuthTokenProvider and the Dashboard page   *)
(*              with its effects and the requests it sends.                *)
(*   SpecToken  the token cache of TrueLayerService.getAccessToken under   *)
(*              concurrent callers and passing time.                       *)
(*   SpecIsolation  Spec over a table that holds another user's payment.   *)
(*   SpecPolling  Spec with the awaits of the status refresh coming to an  *)
(*              end.                                                       *)
(*   SpecDashboardFair  SpecDashboard with every promise settling and      *)
(*              every due effect running.                                  *)
(***************************************************************************)
EXTENDS Integers, Sequences, FiniteSets, TLC

VARIABLES
    store,          \* the Payments table: paymentId -> item (with its userId)
    gateway,        \* the gateway's payment resources: id -> resource
    nextKey,        \* number of idempotency keys drawn so far (crypto.randomUUID)
    req,            \* the request handlers in flight: handler -> locals
    creation,       \* what became of each logical creation the client wants
    served,         \* requests received so far
    out,            \* the request answered last: its response and its counts
    accessToken,    \* TrueLayerService.accessToken (0: null)
    tokenExpiresAt, \* TrueLayerService.tokenExpiresAt, ms
    now,            \* Date.now(), ms
    exchanges,      \* POSTs sent to /connect/token so far
    issued,         \* the last successful exchange: time of receipt, expires_in, token
    call,           \* the getAccessToken calls in flight: caller -> locals
    got,            \* the getAccessToken call that ended last: what it gave
    ticks,          \* clock advances so far
    boot,           \* the start-up of the server process
    svc,            \* the createPayment / getPayment invocations in flight
    svcOut,         \* the invocation that ended last: what it sent, how it ended
    invocations,    \* invocations begun so far
    auth0,          \* client: what useAuth0 gives (isLoading, isAuthenticated)
    provider,       \* client: AuthTokenProvider (tokenReady, tokenError, pending calls)
    dash,           \* client: the Dashboard component, when mounted
    url,            \* client: the search parameters of the location
    api             \* client: apiClient, its header and the requests it has sent

vars == <<store, gateway, nextKey, req, creation, served, out,
          accessToken, tokenExpiresAt, now,
          exchanges, issued, call, got, ticks, boot,
          svc, svcOut, invocations, auth0, provider, dash, url, api>>
routeVars == <<store, gateway, nextKey, req, creation, served, out>>
tokenVars == <<accessToken, tokenExpiresAt, now, exchanges, issued, call, got, ticks>>
serviceVars == <<svc, svcOut, invocations>>
clientVars == <<auth0, provider, dash, url, api>>
restVars == <<boot, serviceVars, clientVars>>

(***************************************************************************)
(* Bounds of the model.                                                    *)
(***************************************************************************)
NReq == 2           \* request handlers that run concurrently
MaxCreates == 2     \* createPayment calls that reach the gateway
MaxRequests == 3    \* requests the server receives in a run
NCallers == 2       \* concurrent getAccessToken callers
MaxTicks == 3       \* clock advances in a run of the token cache
MaxExchanges == 3   \* token requests sent in a run of the token cache
MaxInvocations == 3 \* createPayment / getPayment invocations in a run
MaxAuthChanges == 2 \* changes of isAuthenticated after Auth0 has loaded
MaxClicks == 2      \* clicks on 'Try Again'

Reqs == 1..NReq
Ids == 1..MaxCreates
Logicals == {1}     \* the payments the client sets out to create

(***************************************************************************)
(* types/payment.ts                                                        *)
(***************************************************************************)
PaymentStatus ==
    {"authorization_required", "authorizing", "authorized", "failed",
     "executed", "settled"}

FailureReasons == {"canceled", "provider_rejected"}

\* `undefined` for a TrueLayerPaymentResponse
NoTL == [id |-> 0, status |-> "none", failure_reason |-> "none", resource_token |-> FALSE]

\* an unset hosted_payments_page_url / paymentLink
NoLink == [payment_id |-> 0, resource_token |-> FALSE]

\* no item under the key (canRetry stands for statusMessage / canRetry, which
\* are set together)
NoPayment == [userId |-> "", paymentId |-> 0, amount |-> 0, currency |-> "",
              reference |-> "", status |-> "none", createdAt |-> 0,
              updatedAt |-> 0, paymentLink |-> NoLink, trueLayerData |-> NoTL,
              canRetry |-> FALSE]

\* the gateway has no resource under the id
NoResource == [status |-> "none", failure_reason |-> "none", key |-> 0,
               logical |-> 0]

(***************************************************************************)
(* The gateway (TrueLayer): what the service's HTTP calls can come back    *)
(* with.  A failed call is told by its cause: the token interceptor threw  *)
(* ("auth"), a 4xx response ("rejected"), a 5xx response or no response    *)
(* ("unavailable").                                                        *)
(***************************************************************************)
Causes == {"auth", "rejected", "unavailable"}

PreTerminal == {"authorization_required", "authorizing", "authorized", "executed"}

Successor(s) ==
    CASE s = "authorization_required" -> "authorizing"
      [] s = "authorizing" -> "authorized"
      [] s = "authorized" -> "executed"
      [] s = "executed" -> "settled"

\* the body of GET /v3/payments/{id}
Resource(id) ==
    [id |-> id, status |-> gateway[id].status,
     failure_reason |-> gateway[id].failure_reason, resource_token |-> FALSE]

\* the gateway moves a payment one step along its state machine
GatewayAdvance(id) ==
    /\ gateway[id].status \in PreTerminal
    /\ \/ gateway' = [gateway EXCEPT ![id].status = Successor(@)]
       \/ \E fr \in FailureReasons :
             gateway' = [gateway EXCEPT ![id].status = "failed",
                                        ![id].failure_reason = fr]
    /\ UNCHANGED <<store, nextKey, req, creation, served, out>>
    /\ UNCHANGED tokenVars
    /\ UNCHANGED restVars

\* the id the gateway answers a POST /v3/payments carrying `key` with: the
\* resource already created under that key, or else a new one
GatewayIdFor(key) ==
    IF \E i \in Ids : gateway[i].key = key
    THEN CHOOSE i \in Ids : gateway[i].key = key
    ELSE CHOOSE i \in Ids : gateway[i].status = "none" /\
                            \A j \in Ids : gateway[j].status = "none" => i <= j

(***************************************************************************)
(* services/truelayer.ts: createPayment, getPayment                        *)
(***************************************************************************)
\* crypto.randomUUID(): a value never drawn before
RandomUUID == nextKey + 1

\* what createPayment throws: error.response?.data?.title || 'Failed to create payment'
CreatePaymentError(title) ==
    IF title # "" THEN title ELSE "Failed to create payment"

\* what getPayment throws, whatever failed
GetPaymentError(cause) == "Failed to fetch payment details"

\* the failed POST /v3/payments: the cause, the title of the error body (""
\* when there is none) and whether the gateway processed the request before
\* the failure (a response lost on the way back)
CreateFailures ==
    {[cause |-> "auth", title |-> "", reached |-> FALSE],
     [cause |-> "rejected", title |-> "Invalid Parameters", reached |-> FALSE],
     [cause |-> "unavailable", title |-> "", reached |-> FALSE],
     [cause |-> "unavailable", title |-> "", reached |-> TRUE]}

\* a link built from the id alone
HostedPaymentsPageUrlOfId(payment) ==
    IF payment.id # 0
    THEN [payment_id |-> payment.id, resource_token |-> payment.resource_token]
    ELSE NoLink

\* payment.hosted_payments_page_url, built when resource_token and id are set
HostedPaymentsPageUrl(payment) ==
    IF payment.resource_token /\ payment.id # 0
    THEN [payment_id |-> payment.id, resource_token |-> payment.resource_token]
    ELSE NoLink

(***************************************************************************)
(* routes/payments.ts                                                      *)
(***************************************************************************)
\* a mapping that tells a cancellation from a failure
mapPaymentStatusCancelled(trueLayerPayment) ==
    IF trueLayerPayment.status = "failed" /\ trueLayerPayment.failure_reason = "canceled"
    THEN "cancelled"
    ELSE trueLayerPayment.status

mapPaymentStatus(trueLayerPayment) == trueLayerPayment.status

maxAttempts == 4

NoResp == [code |-> 0, status |-> "none", canRetry |-> FALSE,
           thrown |-> "", cause |-> "none", items |-> {}]

\* a handler that serves no request
Idle ==
    [kind |-> "idle", pc |-> "idle", id |-> 0, payment |-> NoPayment,
     originalStatus |-> "none", attempt |-> 0, trueLayerPayment |-> NoTL,
     mappedStatus |-> "none", calls |-> 0, delays |-> 0, last |-> "none",
     changedAt |-> 0, key |-> 0, logical |-> 0, updatedAt |-> 0,
     resp |-> NoResp]

\* handler r can take the next request: the server listens
Free(r) == boot.pc = "listening" /\ req[r].pc = "idle" /\ served < MaxRequests

\* middleware/auth getUserId: the sub of the request's token (one user)
getUserId == "auth0|a"

\* res.status(code).json(...) without a payment in the body
ErrorJson(code, thrown, cause) ==
    [code |-> code, status |-> "none", canRetry |-> FALSE,
     thrown |-> thrown, cause |-> cause, items |-> {}]

\* res.json(payment)
Json(code, payment, canRetry) ==
    [code |-> code, status |-> payment.status, canRetry |-> canRetry,
     thrown |-> "", cause |-> "none", items |-> {}]

\* the handler answers with resp
Done(q, resp) == [q EXCEPT !.pc = "done", !.resp = resp]

\* what is kept of an answered request: the response and the counts
Answered(q) ==
    [Idle EXCEPT !.kind = q.kind, !.pc = "done", !.id = q.id,
                 !.originalStatus = q.originalStatus,
                 !.mappedStatus = q.mappedStatus, !.calls = q.calls,
                 !.delays = q.delays, !.last = q.last,
                 !.changedAt = q.changedAt, !.logical = q.logical,
                 !.key = q.key, !.resp = q.resp]

\* handler r goes on as q, or has answered and is free again
Continue(r, q) ==
    IF q.pc = "done"
    THEN req' = [req EXCEPT ![r] = Idle] /\ out' = Answered(q)
    ELSE req' = [req EXCEPT ![r] = q] /\ out' = out

(***************************************************************************)
(* db/payments.repository                                                  *)
(***************************************************************************)
\* new Date().toISOString(): an instant later than every instant taken before
\* (those in the table and those of the writes on their way)
NewDate ==
    LET instants == {0} \cup {store[i].createdAt : i \in Ids}
                        \cup {store[i].updatedAt : i \in Ids}
                        \cup {req[r].updatedAt : r \in Reqs}
                        \cup {req[r].payment.updatedAt : r \in Reqs}
    IN  1 + CHOOSE m \in instants : \A n \in instants : n <= m

\* an update that takes the link away once the payment is past authorization
updatePaymentStatusDroppingLink(userId, paymentId, status, trueLayerData, updatedAt) ==
    [store EXCEPT ![paymentId] =
        [@ EXCEPT !.userId = userId, !.paymentId = paymentId,
                  !.status = status, !.updatedAt = updatedAt,
                  !.trueLayerData = trueLayerData,
                  !.paymentLink = IF status \in {"authorization_required", "authorizing"}
                                  THEN @ ELSE NoLink]]

\* an update that puts a new item under the key
updatePaymentStatusReplacing(userId, paymentId, status, trueLayerData, updatedAt) ==
    [store EXCEPT ![paymentId] =
        [NoPayment EXCEPT !.userId = userId, !.paymentId = paymentId,
                          !.status = status, !.updatedAt = updatedAt,
                          !.trueLayerData = trueLayerData]]

\* UpdateCommand: SET status, updatedAt, trueLayerData on the item of the key
\* (DynamoDB's UpdateItem makes the item when the key holds none); updatedAt
\* is the instant taken when the command was built
updatePaymentStatus(userId, paymentId, status, trueLayerData, updatedAt) ==
    [store EXCEPT ![paymentId] =
        [@ EXCEPT !.userId = userId, !.paymentId = paymentId,
                  !.status = status, !.updatedAt = updatedAt,
                  !.trueLayerData = trueLayerData]]

\* PutCommand
createPayment(payment) == [store EXCEPT ![payment.paymentId] = payment]

\* DeleteCommand on the key (userId, paymentId)
deletePayment(userId, paymentId) ==
    IF store[paymentId].userId = userId
    THEN [store EXCEPT ![paymentId] = NoPayment]
    ELSE store

\* a read by paymentId alone
getPaymentOfAnyUser(userId, paymentId) == store[paymentId]

\* GetCommand on the key (userId, paymentId); payment ids are the gateway's,
\* so no two users' items share one
getPayment(userId, paymentId) ==
    IF store[paymentId].userId = userId THEN store[paymentId] ELSE NoPayment

\* QueryCommand on the user's partition, or on StatusIndex when status is set
\* ("none": no filter); the ids of the items found
listPayments(userId, status) ==
    {i \in Ids : /\ store[i] # NoPayment
                 /\ store[i].userId = userId
                 /\ (status = "none" \/ store[i].status = status)}

\* QueryCommand on CreatedAtIndex (an item without createdAt is not in the
\* index); a run is shorter than a day, so the window of `days` days holds
\* every instant of the run when days > 0 and none when it lies in the future
getPaymentStats(userId, days) ==
    {i \in listPayments(userId, "none") :
        store[i].createdAt # 0 /\ days > 0}

\* String.prototype.includes on the words of the model, none of which is a
\* part of another
Includes(text, term) == term = "" \/ term = text

\* searchPayments: the user's items whose reference, amount or id holds the term
searchPayments(userId, searchTerm) ==
    {i \in listPayments(userId, "none") :
        \/ Includes(store[i].reference, searchTerm)
        \/ Includes(ToString(store[i].amount), searchTerm)
        \/ Includes(ToString(store[i].paymentId), searchTerm)}

(***************************************************************************)
(* POST /:id/refresh-status                                                *)
(***************************************************************************)
\* lines 229-245: the item is read, the loop is entered
RefreshStart(r, id) ==
    /\ Free(r)
    /\ served' = served + 1
    /\ LET payment == getPayment(getUserId, id)
           q == [Idle EXCEPT !.kind = "refresh", !.id = id]
       IN Continue(r, IF payment = NoPayment
                      THEN Done(q, ErrorJson(404, "", "none"))
                      ELSE [q EXCEPT !.pc = "poll", !.payment = payment,
                                     !.originalStatus = payment.status,
                                     !.attempt = 1])
    /\ UNCHANGED <<store, gateway, nextKey, creation>>
    /\ UNCHANGED tokenVars
    /\ UNCHANGED restVars

\* the end of the request without the advisory
AfterLoopNoAdvisory(q) ==
    LET mappedStatus == mapPaymentStatus(q.trueLayerPayment)
    IN  IF mappedStatus # q.payment.status
        THEN [q EXCEPT !.pc = "update", !.mappedStatus = mappedStatus,
                       !.updatedAt = NewDate]
        ELSE Done(q, Json(200, q.payment, FALSE))

\* lines 284-305, after a break out of the loop: the write is issued, or the
\* response is sent
AfterLoop(q) ==
    LET mappedStatus == IF q.trueLayerPayment # NoTL
                        THEN mapPaymentStatus(q.trueLayerPayment)
                        ELSE q.payment.status
    IN  IF q.trueLayerPayment # NoTL /\ mappedStatus # q.payment.status
        THEN [q EXCEPT !.pc = "update", !.mappedStatus = mappedStatus,
                       !.updatedAt = NewDate]
        ELSE IF q.trueLayerPayment # NoTL /\ mappedStatus = q.originalStatus
             THEN Done(q, Json(200, q.payment, TRUE))
             ELSE Done(q, Json(200, q.payment, FALSE))

\* a loop that polls on after the status has changed
PollFetchedNoBreak(q, trueLayerPayment) ==
    LET q1 == [q EXCEPT !.trueLayerPayment = trueLayerPayment,
                        !.calls = @ + 1, !.last = "ok",
                        !.changedAt = IF mapPaymentStatus(trueLayerPayment) # q.originalStatus
                                         /\ @ = 0
                                      THEN q.attempt ELSE @]
    IN  IF q.attempt < maxAttempts
        THEN [q1 EXCEPT !.pc = "sleep"]
        ELSE [q1 EXCEPT !.pc = "update", !.updatedAt = NewDate,
                        !.mappedStatus = mapPaymentStatus(trueLayerPayment)]

\* lines 251-269: getPayment answered with trueLayerPayment
PollFetched(q, trueLayerPayment) ==
    LET q1 == [q EXCEPT !.trueLayerPayment = trueLayerPayment,
                        !.calls = @ + 1, !.last = "ok"]
        mappedStatus == mapPaymentStatus(trueLayerPayment)
    IN  IF mappedStatus # q.originalStatus
        THEN AfterLoop([q1 EXCEPT !.changedAt = q.attempt])
        ELSE IF q.attempt < maxAttempts
             THEN [q1 EXCEPT !.pc = "sleep"]
             ELSE AfterLoop(q1)

\* a loop that gives up at the first failure
PollFailedThrows(q, cause) ==
    Done([q EXCEPT !.calls = @ + 1, !.last = "error"],
         ErrorJson(500, GetPaymentError(cause), cause))

\* a loop that waits and goes on after every failure, the last one too
PollFailedSleeping(q, cause) ==
    [q EXCEPT !.calls = @ + 1, !.last = "error", !.pc = "sleep"]

\* lines 270-281: getPayment threw
PollFailed(q, cause) ==
    LET q1 == [q EXCEPT !.calls = @ + 1, !.last = "error"]
    IN  IF q.attempt = maxAttempts
        THEN Done(q1, ErrorJson(500, GetPaymentError(cause), cause))
        ELSE [q1 EXCEPT !.pc = "sleep"]

\* one attempt of the loop: trueLayerService.getPayment(paymentId) and what
\* the handler does with its outcome, up to the next await
RefreshPoll(r) ==
    /\ req[r].kind = "refresh" /\ req[r].pc = "poll"
    /\ \/ /\ gateway[req[r].id].status # "none"
          /\ Continue(r, PollFetched(req[r], Resource(req[r].id)))
       \/ \E cause \in Causes : Continue(r, PollFailed(req[r], cause))
    /\ UNCHANGED <<store, gateway, nextKey, creation, served>>
    /\ UNCHANGED tokenVars
    /\ UNCHANGED restVars

\* lines 264-265 and 279-280: the delay elapses, the next attempt begins
RefreshSleep(r) ==
    /\ req[r].kind = "refresh" /\ req[r].pc = "sleep"
    /\ Continue(r, [req[r] EXCEPT !.delays = @ + 1, !.attempt = @ + 1,
                                  !.pc = "poll"])
    /\ UNCHANGED <<store, gateway, nextKey, creation, served>>
    /\ UNCHANGED tokenVars
    /\ UNCHANGED restVars

\* a write whose response carries the item as it was read
RefreshUpdateStaleAnswer(r) ==
    /\ req[r].kind = "refresh" /\ req[r].pc = "update"
    /\ store' = updatePaymentStatus(getUserId, req[r].id, req[r].mappedStatus,
                                    req[r].trueLayerPayment, req[r].updatedAt)
    /\ Continue(r, Done(req[r], Json(200, req[r].payment, FALSE)))
    /\ UNCHANGED <<gateway, nextKey, creation, served>>
    /\ UNCHANGED tokenVars
    /\ UNCHANGED restVars

\* a write that flags the answer, and the item, as still processing
RefreshUpdateWithAdvisory(r) ==
    /\ req[r].kind = "refresh" /\ req[r].pc = "update"
    /\ store' = [updatePaymentStatus(getUserId, req[r].id, req[r].mappedStatus,
                                     req[r].trueLayerPayment, req[r].updatedAt)
                    EXCEPT ![req[r].id].canRetry = TRUE]
    /\ LET payment == [req[r].payment EXCEPT
                          !.status = req[r].mappedStatus,
                          !.trueLayerData = req[r].trueLayerPayment]
       IN Continue(r, Done(req[r], Json(200, payment, TRUE)))
    /\ UNCHANGED <<gateway, nextKey, creation, served>>
    /\ UNCHANGED tokenVars
    /\ UNCHANGED restVars

\* lines 288-305: the write reaches the table, the response is sent
RefreshUpdate(r) ==
    /\ req[r].kind = "refresh" /\ req[r].pc = "update"
    /\ store' = updatePaymentStatus(getUserId, req[r].id, req[r].mappedStatus,
                                    req[r].trueLayerPayment, req[r].updatedAt)
    /\ LET payment == [req[r].payment EXCEPT
                          !.status = req[r].mappedStatus,
                          !.trueLayerData = req[r].trueLayerPayment]
       IN Continue(r, Done(req[r], Json(200, payment, FALSE)))
    /\ UNCHANGED <<gateway, nextKey, creation, served>>
    /\ UNCHANGED tokenVars
    /\ UNCHANGED restVars

(***************************************************************************)
(* GET /:id                                                                *)
(***************************************************************************)
\* lines 325-332
GetStart(r, id) ==
    /\ Free(r)
    /\ served' = served + 1
    /\ LET payment == getPayment(getUserId, id)
           q == [Idle EXCEPT !.kind = "get", !.id = id]
       IN Continue(r, IF payment = NoPayment
                      THEN Done(q, ErrorJson(404, "", "none"))
                      ELSE [q EXCEPT !.pc = "fetch", !.payment = payment,
                                     !.originalStatus = payment.status])
    /\ UNCHANGED <<store, gateway, nextKey, creation>>
    /\ UNCHANGED tokenVars
    /\ UNCHANGED restVars

\* lines 336-340: getPayment answered
GetFetched(q, trueLayerPayment) ==
    LET q1 == [q EXCEPT !.trueLayerPayment = trueLayerPayment,
                        !.calls = @ + 1, !.last = "ok"]
        mappedStatus == mapPaymentStatus(trueLayerPayment)
    IN  IF mappedStatus # q.payment.status
        THEN [q1 EXCEPT !.pc = "update", !.mappedStatus = mappedStatus,
                        !.updatedAt = NewDate]
        ELSE Done(q1, Json(200, q.payment, FALSE))

\* lines 350-355: getPayment threw; the handler answers with the stored item
GetFailed(q, cause) ==
    Done([q EXCEPT !.calls = @ + 1, !.last = "error"],
         [Json(200, q.payment, FALSE) EXCEPT
             !.thrown = GetPaymentError(cause), !.cause = cause])

GetFetch(r) ==
    /\ req[r].kind = "get" /\ req[r].pc = "fetch"
    /\ \/ /\ gateway[req[r].id].status # "none"
          /\ Continue(r, GetFetched(req[r], Resource(req[r].id)))
       \/ \E cause \in Causes : Continue(r, GetFailed(req[r], cause))
    /\ UNCHANGED <<store, gateway, nextKey, creation, served>>
    /\ UNCHANGED tokenVars
    /\ UNCHANGED restVars

\* lines 341-355
GetUpdate(r) ==
    /\ req[r].kind = "get" /\ req[r].pc = "update"
    /\ store' = updatePaymentStatus(getUserId, req[r].id, req[r].mappedStatus,
                                    req[r].trueLayerPayment, req[r].updatedAt)
    /\ LET payment == [req[r].payment EXCEPT
                          !.status = req[r].mappedStatus,
                          !.trueLayerData = req[r].trueLayerPayment]
       IN Continue(r, Done(req[r], Json(200, payment, FALSE)))
    /\ UNCHANGED <<gateway, nextKey, creation, served>>
    /\ UNCHANGED tokenVars
    /\ UNCHANGED restVars

(***************************************************************************)
(* DELETE /:id                                                             *)
(***************************************************************************)
\* a list of deletable statuses that lets an authorized payment go
deletableStatusesAuthorized ==
    {"authorization_required", "authorizing", "authorized", "failed"}

deletableStatuses == {"authorization_required", "authorizing", "failed"}

\* lines 375-391: the item is read and its status checked
DeleteStart(r, id) ==
    /\ Free(r)
    /\ served' = served + 1
    /\ LET payment == getPayment(getUserId, id)
           q == [Idle EXCEPT !.kind = "delete", !.id = id,
                             !.originalStatus = payment.status]
       IN Continue(r, IF payment = NoPayment
                      THEN Done(q, ErrorJson(404, "", "none"))
                      ELSE IF payment.status \notin deletableStatuses
                      THEN Done(q, ErrorJson(400, "", "none"))
                      ELSE [q EXCEPT !.pc = "delete"])
    /\ UNCHANGED <<store, gateway, nextKey, creation>>
    /\ UNCHANGED tokenVars
    /\ UNCHANGED restVars

\* lines 394-396
DeleteItem(r) ==
    /\ req[r].kind = "delete" /\ req[r].pc = "delete"
    /\ store' = deletePayment(getUserId, req[r].id)
    /\ Continue(r, Done(req[r], ErrorJson(204, "", "none")))
    /\ UNCHANGED <<gateway, nextKey, creation, served>>
    /\ UNCHANGED tokenVars
    /\ UNCHANGED restVars

(***************************************************************************)
(* GET /, GET /search, GET /stats: one read of the table, then the answer  *)
(***************************************************************************)
\* res.json(payments)
JsonItems(items) == [Json(200, NoPayment, FALSE) EXCEPT !.items = items]

StatusFilters == PaymentStatus \cup {"none"}

\* a list that brings the items it returns up to date
ListPaymentsTouching(r, status) ==
    /\ Free(r)
    /\ served' = served + 1
    /\ Continue(r, Done([Idle EXCEPT !.kind = "list"],
                        JsonItems(listPayments(getUserId, status))))
    /\ store' = [i \in Ids |->
                   IF i \in listPayments(getUserId, status)
                   THEN [store[i] EXCEPT !.updatedAt = NewDate]
                   ELSE store[i]]
    /\ UNCHANGED <<gateway, nextKey, creation>>
    /\ UNCHANGED tokenVars
    /\ UNCHANGED restVars

\* lines 78-108
ListPayments(r, status) ==
    /\ Free(r)
    /\ served' = served + 1
    /\ Continue(r, Done([Idle EXCEPT !.kind = "list"],
                        JsonItems(listPayments(getUserId, status))))
    /\ UNCHANGED <<store, gateway, nextKey, creation>>
    /\ UNCHANGED tokenVars
    /\ UNCHANGED restVars

SearchTerms == {"", "ref", "50", "1", "zzz"}

\* lines 115-137; an item without a reference makes toLowerCase throw
SearchPayments(r, searchTerm) ==
    /\ Free(r)
    /\ served' = served + 1
    /\ LET q == [Idle EXCEPT !.kind = "search"]
           mine == listPayments(getUserId, "none")
       IN Continue(r, IF searchTerm = ""
                      THEN Done(q, ErrorJson(400, "", "none"))
                      ELSE IF \E i \in mine : store[i].reference = ""
                      THEN Done(q, ErrorJson(500, "TypeError", "none"))
                      ELSE Done(q, JsonItems(searchPayments(getUserId, searchTerm))))
    /\ UNCHANGED <<store, gateway, nextKey, creation>>
    /\ UNCHANGED tokenVars
    /\ UNCHANGED restVars

\* parseInt(req.query.days) || 7
Days == {-1, 7}

\* lines 144-187: the items of the window that count in the sums
PaymentStats(r, days) ==
    /\ Free(r)
    /\ served' = served + 1
    /\ LET payments == getPaymentStats(getUserId, days)
       IN Continue(r, Done([Idle EXCEPT !.kind = "stats"],
              JsonItems({i \in payments :
                            store[i].status \in {"executed", "authorized"}})))
    /\ UNCHANGED <<store, gateway, nextKey, creation>>
    /\ UNCHANGED tokenVars
    /\ UNCHANGED restVars

(***************************************************************************)
(* POST /                                                                  *)
(***************************************************************************)
Amounts == {-5, 0, 50}
Currencies == {"", "gbp"}
References == {"", "ref"}
Bodies == [amount : Amounts, currency : Currencies, reference : References]

ToUpperCase(currency) == IF currency = "gbp" THEN "GBP" ELSE currency

\* services/truelayer.ts createPayment, line 181: the key of this call
IdempotencyKey(logical) == RandomUUID

\* a validation that lets a negative amount through
CreateStartLax(r, body, logical) ==
    /\ Free(r)
    /\ served' = served + 1
    /\ creation[logical] \in {"new", "failed"}
    /\ LET q == [Idle EXCEPT !.kind = "create", !.logical = logical] IN
       IF body.amount = 0 \/ body.currency = "" \/ body.reference = ""
       THEN /\ Continue(r, Done(q, ErrorJson(400, "", "none")))
            /\ UNCHANGED <<nextKey, creation>>
       ELSE /\ nextKey < MaxCreates
            /\ Continue(r, [q EXCEPT !.pc = "post",
                                     !.key = IdempotencyKey(logical),
                                     !.payment = [NoPayment EXCEPT
                                         !.amount = body.amount,
                                         !.currency = ToUpperCase(body.currency),
                                         !.reference = body.reference]])
            /\ nextKey' = nextKey + 1
            /\ creation' = [creation EXCEPT ![logical] = "pending"]
    /\ UNCHANGED <<store, gateway>>
    /\ UNCHANGED tokenVars
    /\ UNCHANGED restVars

\* lines 26-45: the body is validated; a valid one goes to
\* trueLayerService.createPayment, which draws its idempotency key.  The
\* client sends the POST of a creation again only after it has failed.
CreateStart(r, body, logical) ==
    /\ Free(r)
    /\ served' = served + 1
    /\ creation[logical] \in {"new", "failed"}
    /\ LET q == [Idle EXCEPT !.kind = "create", !.logical = logical] IN
       IF body.amount = 0 \/ body.currency = "" \/ body.reference = ""
       THEN /\ Continue(r, Done(q, ErrorJson(400, "", "none")))
            /\ UNCHANGED <<nextKey, creation>>
       ELSE IF body.amount <= 0
       THEN /\ Continue(r, Done(q, ErrorJson(400, "", "none")))
            /\ UNCHANGED <<nextKey, creation>>
       ELSE /\ nextKey < MaxCreates
            /\ Continue(r, [q EXCEPT !.pc = "post",
                                     !.key = IdempotencyKey(logical),
                                     !.payment = [NoPayment EXCEPT
                                         !.amount = body.amount,
                                         !.currency = ToUpperCase(body.currency),
                                         !.reference = body.reference]])
            /\ nextKey' = nextKey + 1
            /\ creation' = [creation EXCEPT ![logical] = "pending"]
    /\ UNCHANGED <<store, gateway>>
    /\ UNCHANGED tokenVars
    /\ UNCHANGED restVars

\* the gateway processes POST /v3/payments: one resource per idempotency key
GatewayCreate(key, logical) ==
    IF \E i \in Ids : gateway[i].key = key
    THEN gateway
    ELSE [gateway EXCEPT ![GatewayIdFor(key)] =
            [status |-> "authorization_required", failure_reason |-> "none",
             key |-> key, logical |-> logical]]

\* services/truelayer.ts lines 195-206 and routes lines 48-59: the item made of
\* the gateway's response
NewPayment(q, data) ==
    [q.payment EXCEPT !.userId = getUserId,
                      !.paymentId = data.id,
                      !.status = mapPaymentStatus(data),
                      !.createdAt = NewDate,
                      !.updatedAt = NewDate,
                      !.paymentLink = HostedPaymentsPageUrl(data),
                      !.trueLayerData = data]

\* the POST /v3/payments of createPayment comes back
CreatePost(r) ==
    /\ req[r].kind = "create" /\ req[r].pc = "post"
    /\ \/ \E resource_token \in BOOLEAN :
            LET id == GatewayIdFor(req[r].key) IN
            /\ gateway' = GatewayCreate(req[r].key, req[r].logical)
            /\ Continue(r, [req[r] EXCEPT
                   !.pc = "put", !.id = id, !.calls = @ + 1, !.last = "ok",
                   !.payment = NewPayment(req[r],
                       [id |-> id, status |-> gateway'[id].status,
                        failure_reason |-> gateway'[id].failure_reason,
                        resource_token |-> resource_token])])
            /\ UNCHANGED creation
       \/ \E f \in CreateFailures :
            /\ gateway' = IF f.reached
                          THEN GatewayCreate(req[r].key, req[r].logical)
                          ELSE gateway
            /\ Continue(r, Done([req[r] EXCEPT !.calls = @ + 1, !.last = "error"],
                                ErrorJson(500, CreatePaymentError(f.title), f.cause)))
            /\ creation' = [creation EXCEPT ![req[r].logical] = "failed"]
    /\ UNCHANGED <<store, nextKey, served>>
    /\ UNCHANGED tokenVars
    /\ UNCHANGED restVars

\* lines 61-63: the item is put, the response is sent
CreatePut(r) ==
    /\ req[r].kind = "create" /\ req[r].pc = "put"
    /\ store' = createPayment(req[r].payment)
    /\ Continue(r, Done(req[r], Json(201, req[r].payment, FALSE)))
    /\ creation' = [creation EXCEPT ![req[r].logical] = "created"]
    /\ UNCHANGED <<gateway, nextKey, served>>
    /\ UNCHANGED tokenVars
    /\ UNCHANGED restVars

(***************************************************************************)
(* The payment routes: the state after start-up and the steps              *)
(***************************************************************************)
(***************************************************************************)
(* services/truelayer.ts: the token cache of getAccessToken                *)
(***************************************************************************)
Callers == 1..NCallers

\* expires_in of a token response, seconds
Lifetimes == {30, 60, 3600, 14400}

\* what the clock advances by between two steps, ms
Steps == {1000, 3539000, 10800000}

NoCall == [pc |-> "idle", n |-> 0]
NoResult == [kind |-> "none", caller |-> 0, token |-> 0, at |-> 0,
             cached |-> FALSE, expiresAt |-> 0]

\* a check that takes the instant of expiry for good
CachedTokenValidAtExpiry == accessToken # 0 /\ now <= tokenExpiresAt

\* line 107: the cached token is still good
CachedTokenValid == accessToken # 0 /\ now < tokenExpiresAt

\* an expiry that adds the seconds to the milliseconds
ExpiresAtInSeconds(receivedAt, expires_in) == receivedAt + (expires_in - 60)

\* line 129: the expiry kept for a token received at `receivedAt`
ExpiresAt(receivedAt, expires_in) == receivedAt + (expires_in - 60) * 1000

\* lines 107-125: the cached token is returned, or the exchange is sent
Acquire(c) ==
    /\ call[c].pc = "idle"
    /\ IF CachedTokenValid
       THEN /\ got' = [kind |-> "returned", caller |-> c, token |-> accessToken,
                       at |-> now, cached |-> TRUE, expiresAt |-> tokenExpiresAt]
            /\ UNCHANGED <<call, exchanges>>
       ELSE /\ exchanges < MaxExchanges
            /\ exchanges' = exchanges + 1
            /\ call' = [call EXCEPT ![c] = [pc |-> "exchanging", n |-> exchanges + 1]]
            /\ got' = got
    /\ UNCHANGED <<accessToken, tokenExpiresAt, now, issued, ticks>>
    /\ UNCHANGED routeVars
    /\ UNCHANGED restVars

\* an exchange whose token is stored while the expiry waits for a later turn
ExchangedTokenFirst(c, expires_in) ==
    /\ call[c].pc = "exchanging"
    /\ accessToken' = call[c].n
    /\ tokenExpiresAt' = tokenExpiresAt
    /\ issued' = [at |-> now, expires_in |-> expires_in, token |-> call[c].n]
    /\ got' = [kind |-> "returned", caller |-> c, token |-> accessToken',
               at |-> now, cached |-> FALSE, expiresAt |-> tokenExpiresAt']
    /\ call' = [call EXCEPT ![c] = NoCall]
    /\ UNCHANGED <<now, exchanges, ticks>>
    /\ UNCHANGED routeVars
    /\ UNCHANGED restVars

\* lines 127-131: the token response arrives; the n-th request is answered
\* with the n-th token
Exchanged(c, expires_in) ==
    /\ call[c].pc = "exchanging"
    /\ accessToken' = call[c].n
    /\ tokenExpiresAt' = ExpiresAt(now, expires_in)
    /\ issued' = [at |-> now, expires_in |-> expires_in, token |-> call[c].n]
    /\ got' = [kind |-> "returned", caller |-> c, token |-> accessToken',
               at |-> now, cached |-> FALSE, expiresAt |-> tokenExpiresAt']
    /\ call' = [call EXCEPT ![c] = NoCall]
    /\ UNCHANGED <<now, exchanges, ticks>>
    /\ UNCHANGED routeVars
    /\ UNCHANGED restVars

\* a failure that drops the cached token
ExchangeFailedClearing(c) ==
    /\ call[c].pc = "exchanging"
    /\ got' = [NoResult EXCEPT !.kind = "threw", !.caller = c, !.at = now]
    /\ call' = [call EXCEPT ![c] = NoCall]
    /\ accessToken' = 0
    /\ tokenExpiresAt' = 0
    /\ UNCHANGED <<now, exchanges, issued, ticks>>
    /\ UNCHANGED routeVars
    /\ UNCHANGED restVars

\* lines 132-135: the exchange failed; getAccessToken throws
ExchangeFailed(c) ==
    /\ call[c].pc = "exchanging"
    /\ got' = [NoResult EXCEPT !.kind = "threw", !.caller = c, !.at = now]
    /\ call' = [call EXCEPT ![c] = NoCall]
    /\ UNCHANGED <<accessToken, tokenExpiresAt, now, exchanges, issued, ticks>>
    /\ UNCHANGED routeVars
    /\ UNCHANGED restVars

\* time passes
Tick(d) ==
    /\ ticks < MaxTicks
    /\ ticks' = ticks + 1
    /\ now' = now + d
    /\ UNCHANGED <<accessToken, tokenExpiresAt, exchanges, issued, call, got>>
    /\ UNCHANGED routeVars
    /\ UNCHANGED restVars

TokenIdle ==
    /\ accessToken = 0
    /\ tokenExpiresAt = 0
    /\ now = 0
    /\ exchanges = 0
    /\ issued = [at |-> 0, expires_in |-> 0, token |-> 0]
    /\ call = [c \in Callers |-> NoCall]
    /\ got = NoResult
    /\ ticks = 0

NextToken ==
    \/ \E c \in Callers : Acquire(c)
    \/ \E c \in Callers, expires_in \in Lifetimes : Exchanged(c, expires_in)
    \/ \E c \in Callers : ExchangeFailed(c)
    \/ \E d \in Steps : Tick(d)


(***************************************************************************)
(* services/truelayer.ts: one invocation of createPayment or getPayment,   *)
(* from the call to its return or throw: the request interceptor asks      *)
(* getAccessToken for the token, then the request is sent.                 *)
(***************************************************************************)
Methods == {"createPayment", "getPayment"}

\* how the gateway answers the request of a method
Outcomes == {"ok", "rejected", "unavailable"}

NoInvocation == [method |-> "none", pc |-> "idle", requests |-> 0,
                 exchanges |-> 0, outcome |-> "none", cause |-> "none"]

\* the method returns or throws: the invocation is over
Ended(c, q) == svc' = [svc EXCEPT ![c] = NoInvocation] /\ svcOut' = q

\* lines 57-62 and 105-125: the method builds its request and hands it to
\* axios; the interceptor calls getAccessToken, which returns the cached
\* token, so that the request is sent, or sends the token request
ServiceCall(c, method) ==
    /\ svc[c].pc = "idle"
    /\ invocations < MaxInvocations
    /\ invocations' = invocations + 1
    /\ IF CachedTokenValid
       THEN /\ svc' = [svc EXCEPT ![c] = [NoInvocation EXCEPT
                          !.method = method, !.pc = "request", !.requests = 1]]
            /\ UNCHANGED exchanges
       ELSE /\ exchanges < MaxExchanges
            /\ exchanges' = exchanges + 1
            /\ svc' = [svc EXCEPT ![c] = [NoInvocation EXCEPT
                          !.method = method, !.pc = "token", !.exchanges = 1]]
    /\ UNCHANGED <<svcOut, accessToken, tokenExpiresAt, now, issued, call, got, ticks>>
    /\ UNCHANGED routeVars
    /\ UNCHANGED <<boot, clientVars>>

\* lines 127-131 and 59-61: the token arrives and is cached, the interceptor
\* sets the header, the request is sent
TokenGranted(c, expires_in) ==
    /\ svc[c].pc = "token"
    /\ accessToken' = exchanges
    /\ tokenExpiresAt' = ExpiresAt(now, expires_in)
    /\ issued' = [at |-> now, expires_in |-> expires_in, token |-> exchanges]
    /\ svc' = [svc EXCEPT ![c].pc = "request", ![c].requests = @ + 1]
    /\ UNCHANGED <<svcOut, invocations, now, exchanges, call, got, ticks>>
    /\ UNCHANGED routeVars
    /\ UNCHANGED <<boot, clientVars>>

\* lines 132-135: getAccessToken throws, the interceptor rejects, the catch
\* of the method throws
TokenRefused(c) ==
    /\ svc[c].pc = "token"
    /\ Ended(c, [svc[c] EXCEPT !.pc = "done", !.outcome = "threw", !.cause = "auth"])
    /\ UNCHANGED <<invocations, accessToken, tokenExpiresAt, now, exchanges,
                   issued, call, got, ticks>>
    /\ UNCHANGED routeVars
    /\ UNCHANGED <<boot, clientVars>>

\* a method that sends its request again when the gateway is unavailable
ServiceAnswerRetrying(c, outcome) ==
    /\ svc[c].pc = "request"
    /\ IF outcome = "unavailable" /\ svc[c].requests < 3
       THEN svc' = [svc EXCEPT ![c].requests = @ + 1] /\ svcOut' = svcOut
       ELSE Ended(c, [svc[c] EXCEPT !.pc = "done",
                         !.outcome = IF outcome = "ok" THEN "returned" ELSE "threw",
                         !.cause = IF outcome = "ok" THEN "none" ELSE outcome])
    /\ UNCHANGED <<invocations, accessToken, tokenExpiresAt, now, exchanges,
                   issued, call, got, ticks>>
    /\ UNCHANGED routeVars
    /\ UNCHANGED <<boot, clientVars>>

\* createPayment lines 188-212, getPayment lines 251-256: the response is
\* returned, or the catch throws
ServiceAnswer(c, outcome) ==
    /\ svc[c].pc = "request"
    /\ Ended(c, [svc[c] EXCEPT !.pc = "done",
                    !.outcome = IF outcome = "ok" THEN "returned" ELSE "threw",
                    !.cause = IF outcome = "ok" THEN "none" ELSE outcome])
    /\ UNCHANGED <<invocations, accessToken, tokenExpiresAt, now, exchanges,
                   issued, call, got, ticks>>
    /\ UNCHANGED routeVars
    /\ UNCHANGED <<boot, clientVars>>

ServiceIdle ==
    /\ svc = [c \in Callers |-> NoInvocation]
    /\ svcOut = NoInvocation
    /\ invocations = 0

NextService ==
    \/ \E c \in Callers, method \in Methods : ServiceCall(c, method)
    \/ \E c \in Callers, expires_in \in Lifetimes : TokenGranted(c, expires_in)
    \/ \E c \in Callers : TokenRefused(c)
    \/ \E c \in Callers, outcome \in Outcomes : ServiceAnswer(c, outcome)
    \/ \E d \in Steps : Tick(d)

(***************************************************************************)
(* The client: App.tsx (ProtectedRoute), contexts/AuthTokenContext         *)
(* (AuthTokenProvider), pages/Dashboard, services/api.  An effect runs     *)
(* after a render in which its dependencies differ from those of its last  *)
(* run; an awaited call resolves in a step of its own.                     *)
(***************************************************************************)
\* the search parameters the page is loaded with
LandingUrls ==
    [payment_id : {0, 1}, from_payment : BOOLEAN]

NeverInit == [ran |-> FALSE, isAuthenticated |-> FALSE, isLoading |-> TRUE]
NeverToken == [ran |-> FALSE, tokenReady |-> FALSE, tokenError |-> "none"]
NeverReturn == [ran |-> FALSE, obj |-> 0, tokenReady |-> FALSE]

\* no Dashboard is mounted
NoDashboard ==
    [mounted |-> FALSE, loading |-> TRUE, error |-> "none",
     isRefreshingFromPayment |-> FALSE, mountDue |-> FALSE,
     tokenSeen |-> NeverToken, returnSeen |-> NeverReturn]

\* Dashboard lines 150-161: the state of a Dashboard that has just mounted
NewDashboard == [NoDashboard EXCEPT !.mounted = TRUE, !.mountDue = TRUE]

NoRequest == [api |-> "none", tokenReady |-> FALSE, header |-> FALSE]

\* App.tsx ProtectedRoute: <Navigate to="/" replace />; the search
\* parameters go, and with them the object useSearchParams gave
Navigated(u) ==
    IF u.payment_id # 0 \/ u.from_payment
    THEN [u EXCEPT !.obj = @ + 1, !.payment_id = 0, !.from_payment = FALSE]
    ELSE u

\* apiClient sends a request: with the header it has, at this tokenReady
Send(a, name) ==
    [a EXCEPT !.sent = [api |-> name, tokenReady |-> provider.tokenReady,
                        header |-> a.header]]

\* Auth0 has finished loading; ProtectedRoute renders the Dashboard or
\* navigates to the login page
Auth0Loaded(authenticated) ==
    /\ auth0.isLoading
    /\ auth0' = [auth0 EXCEPT !.isLoading = FALSE, !.isAuthenticated = authenticated]
    /\ dash' = IF authenticated THEN NewDashboard ELSE NoDashboard
    /\ url' = IF authenticated THEN url ELSE Navigated(url)
    /\ UNCHANGED <<provider, api>>
    /\ UNCHANGED <<routeVars, tokenVars, serviceVars, boot>>

\* isAuthenticated changes: the Dashboard unmounts (a run of refreshAndFetch
\* it started goes on without it), or the login page navigates to it
Auth0Changed ==
    /\ ~auth0.isLoading
    /\ auth0.changes < MaxAuthChanges
    /\ auth0' = [auth0 EXCEPT !.isAuthenticated = ~@, !.changes = @ + 1]
    /\ IF auth0.isAuthenticated
       THEN /\ dash' = NoDashboard
            /\ url' = Navigated(url)
            /\ api' = [api EXCEPT !.fetches = 0, !.orphan = (api.ret # "none")]
       ELSE /\ dash' = NewDashboard
            /\ UNCHANGED <<url, api>>
    /\ UNCHANGED provider
    /\ UNCHANGED <<routeVars, tokenVars, serviceVars, boot>>

\* the dependencies of the effect of AuthTokenProvider
InitDeps == [ran |-> TRUE, isAuthenticated |-> auth0.isAuthenticated,
             isLoading |-> auth0.isLoading]

\* AuthTokenProvider lines 27-55: initToken up to getAccessTokenSilently
InitToken ==
    /\ provider.seen # InitDeps
    /\ IF auth0.isLoading
       THEN provider' = [provider EXCEPT !.seen = InitDeps] /\ api' = api
       ELSE IF ~auth0.isAuthenticated
       THEN /\ provider' = [provider EXCEPT !.seen = InitDeps,
                               !.tokenReady = FALSE, !.tokenError = "none"]
            /\ api' = [api EXCEPT !.header = FALSE]
       ELSE /\ provider' = [provider EXCEPT !.seen = InitDeps, !.silent = @ + 1]
            /\ api' = api
    /\ UNCHANGED <<auth0, dash, url>>
    /\ UNCHANGED <<routeVars, tokenVars, serviceVars, boot>>

\* lines 56-64: getAccessTokenSilently resolved
SilentResolved ==
    /\ provider.silent > 0
    /\ provider' = [provider EXCEPT !.silent = @ - 1, !.tokenReady = TRUE,
                                    !.tokenError = "none"]
    /\ api' = [api EXCEPT !.header = TRUE]
    /\ UNCHANGED <<auth0, dash, url>>
    /\ UNCHANGED <<routeVars, tokenVars, serviceVars, boot>>

SilentErrors == {"login_required", "consent_required", "other"}

\* lines 65-83 and 105-109: getAccessTokenSilently rejected
SilentRejected(error) ==
    /\ provider.silent > 0
    /\ provider' =
          IF error = "consent_required"
          THEN [provider EXCEPT !.silent = @ - 1, !.popup = @ + 1]
          ELSE [provider EXCEPT !.silent = @ - 1, !.tokenReady = FALSE,
                                !.tokenError = IF error = "login_required"
                                               THEN "session" ELSE "other"]
    /\ UNCHANGED <<auth0, dash, url, api>>
    /\ UNCHANGED <<routeVars, tokenVars, serviceVars, boot>>

\* lines 84-104: getAccessTokenWithPopup resolved or rejected
PopupSettled(resolved) ==
    /\ provider.popup > 0
    /\ IF resolved
       THEN /\ provider' = [provider EXCEPT !.popup = @ - 1, !.tokenReady = TRUE,
                                           !.tokenError = "none"]
            /\ api' = [api EXCEPT !.header = TRUE]
       ELSE /\ provider' = [provider EXCEPT !.popup = @ - 1, !.tokenReady = FALSE,
                                           !.tokenError = "popup"]
            /\ api' = api
    /\ UNCHANGED <<auth0, dash, url>>
    /\ UNCHANGED <<routeVars, tokenVars, serviceVars, boot>>
\* Dashboard lines 164-172: the effect that runs once, on mount
MountEffect ==
    /\ dash.mounted /\ dash.mountDue
    /\ dash' = [dash EXCEPT !.mountDue = FALSE,
                            !.isRefreshingFromPayment =
                                (url.payment_id # 0 \/ url.from_payment) \/ @]
    /\ UNCHANGED <<auth0, provider, url, api>>
    /\ UNCHANGED <<routeVars, tokenVars, serviceVars, boot>>

\* Dashboard lines 290-295: fetchPayments up to apiClient.getPayments
fetchPayments(d) == [d EXCEPT !.loading = TRUE, !.error = "none"]

TokenDeps == [ran |-> TRUE, tokenReady |-> provider.tokenReady,
              tokenError |-> provider.tokenError]

\* Dashboard lines 180-189: the effect of [tokenReady, tokenError]
TokenEffect ==
    /\ dash.mounted /\ ~dash.mountDue
    /\ dash.tokenSeen # TokenDeps
    /\ IF provider.tokenReady
       THEN /\ dash' = [fetchPayments(dash) EXCEPT !.tokenSeen = TokenDeps]
            /\ api' = Send([api EXCEPT !.fetches = @ + 1], "getPayments")
       ELSE /\ dash' = IF provider.tokenError # "none"
                       THEN [dash EXCEPT !.tokenSeen = TokenDeps,
                                         !.error = "auth", !.loading = FALSE]
                       ELSE [dash EXCEPT !.tokenSeen = TokenDeps]
            /\ api' = api
    /\ UNCHANGED <<auth0, provider, url>>
    /\ UNCHANGED <<routeVars, tokenVars, serviceVars, boot>>

ReturnDeps == [ran |-> TRUE, obj |-> url.obj, tokenReady |-> provider.tokenReady]

\* Dashboard lines 192-250: the effect of [searchParams, tokenReady], up to
\* the first await of refreshAndFetch: the parameters are deleted from the
\* object and the location is replaced, then the one refresh request is sent
\* (or, without a payment_id, the list is fetched at once)
ReturnEffect ==
    /\ dash.mounted /\ ~dash.mountDue
    /\ dash.tokenSeen = TokenDeps
    /\ dash.returnSeen # ReturnDeps
    /\ dash' = [dash EXCEPT !.returnSeen = ReturnDeps]
    /\ IF (url.payment_id # 0 \/ url.from_payment) /\ provider.tokenReady
       THEN /\ url' = [url EXCEPT !.obj = @ + 1, !.payment_id = 0,
                                  !.from_payment = FALSE]
            /\ api' = IF url.payment_id # 0
                      THEN Send([api EXCEPT !.ret = "refreshing", !.orphan = FALSE,
                                            !.refreshRequests = @ + 1],
                                "refreshPaymentStatus")
                      ELSE Send([api EXCEPT !.ret = "listing", !.orphan = FALSE],
                                "getPayments")
       ELSE UNCHANGED <<url, api>>
    /\ UNCHANGED <<auth0, provider>>
    /\ UNCHANGED <<routeVars, tokenVars, serviceVars, boot>>

\* how POST /:id/refresh-status comes back
RefreshOutcomes == {"changed", "advisory", "failed"}

\* a refreshAndFetch that asks again while the backend reports no change
RefreshAnsweredPolling(outcome) ==
    /\ api.ret = "refreshing"
    /\ api' = IF outcome = "advisory" /\ api.refreshRequests < maxAttempts
              THEN Send([api EXCEPT !.refreshRequests = @ + 1], "refreshPaymentStatus")
              ELSE Send([api EXCEPT !.ret = "listing"], "getPayments")
    /\ UNCHANGED <<auth0, provider, dash, url>>
    /\ UNCHANGED <<routeVars, tokenVars, serviceVars, boot>>

\* lines 209-234: the refresh request is answered (or fails); the list is
\* fetched next
RefreshAnswered(outcome) ==
    /\ api.ret = "refreshing"
    /\ api' = Send([api EXCEPT !.ret = "listing"], "getPayments")
    /\ UNCHANGED <<auth0, provider, dash, url>>
    /\ UNCHANGED <<routeVars, tokenVars, serviceVars, boot>>

\* lines 236-247: the list is answered (or fails); the Dashboard that started
\* the run, if it is still there, leaves the refreshing state
ListAnswered(ok) ==
    /\ api.ret = "listing"
    /\ api' = [api EXCEPT !.ret = "none", !.orphan = FALSE]
    /\ dash' = IF dash.mounted /\ ~api.orphan
               THEN [dash EXCEPT !.isRefreshingFromPayment = FALSE]
               ELSE dash
    /\ UNCHANGED <<auth0, provider, url>>
    /\ UNCHANGED <<routeVars, tokenVars, serviceVars, boot>>

\* Dashboard lines 296-307: the getPayments of fetchPayments is answered
FetchAnswered(ok) ==
    /\ api.fetches > 0
    /\ api' = [api EXCEPT !.fetches = @ - 1]
    /\ dash' = [dash EXCEPT !.loading = FALSE,
                            !.error = IF ok THEN @ ELSE "fetch"]
    /\ UNCHANGED <<auth0, provider, url>>
    /\ UNCHANGED <<routeVars, tokenVars, serviceVars, boot>>

\* Dashboard lines 467-497: the error view is shown and 'Try Again' is clicked
TryAgain ==
    /\ dash.mounted
    /\ ~dash.loading /\ ~dash.isRefreshingFromPayment /\ dash.error # "none"
    /\ api.clicks < MaxClicks
    /\ dash' = fetchPayments(dash)
    /\ api' = Send([api EXCEPT !.fetches = @ + 1, !.clicks = @ + 1], "getPayments")
    /\ UNCHANGED <<auth0, provider, url>>
    /\ UNCHANGED <<routeVars, tokenVars, serviceVars, boot>>

\* the page before it is loaded with `landing`
Client(landing) ==
    /\ auth0 = [isLoading |-> TRUE, isAuthenticated |-> FALSE, changes |-> 0]
    /\ provider = [tokenReady |-> FALSE, tokenError |-> "none", silent |-> 0,
                   popup |-> 0, seen |-> NeverInit]
    /\ dash = NoDashboard
    /\ url = [obj |-> 0, payment_id |-> landing.payment_id,
              from_payment |-> landing.from_payment,
              landing |-> landing.payment_id]
    /\ api = [header |-> FALSE, fetches |-> 0, ret |-> "none", orphan |-> FALSE,
              sent |-> NoRequest, refreshRequests |-> 0, clicks |-> 0]

ClientIdle == Client([payment_id |-> 0, from_payment |-> FALSE])

NextDashboard ==
    \/ \E authenticated \in BOOLEAN : Auth0Loaded(authenticated)
    \/ Auth0Changed
    \/ InitToken
    \/ SilentResolved
    \/ \E error \in SilentErrors : SilentRejected(error)
    \/ \E resolved \in BOOLEAN : PopupSettled(resolved)
    \/ MountEffect
    \/ TokenEffect
    \/ ReturnEffect
    \/ \E outcome \in RefreshOutcomes : RefreshAnswered(outcome)
    \/ \E ok \in BOOLEAN : ListAnswered(ok)
    \/ \E ok \in BOOLEAN : FetchAnswered(ok)
    \/ TryAgain

(***************************************************************************)
(* Start-up: index.ts imports routes/payments.js, which imports            *)
(* services/truelayer.js, whose evaluation constructs the singleton; only  *)
(* then does index.ts go on to app.listen.                                 *)
(***************************************************************************)
\* what readFileSync / createPrivateKey find at ec512-private-key.pem
KeyFiles == {"missing", "malformed", "valid"}

NotStarted == [pc |-> "importing", keyFile |-> "none", privateKey |-> FALSE]

\* a constructor that logs the failure and leaves the key unset
ConstructLenient(keyFile) ==
    /\ boot.pc = "importing"
    /\ boot' = [pc |-> "constructed", keyFile |-> keyFile,
                privateKey |-> keyFile = "valid"]
    /\ UNCHANGED routeVars
    /\ UNCHANGED tokenVars
    /\ UNCHANGED <<serviceVars, clientVars>>

\* services/truelayer.ts lines 40-48: the key is loaded, or the constructor
\* throws and the evaluation of the modules fails
Construct(keyFile) ==
    /\ boot.pc = "importing"
    /\ boot' = IF keyFile = "valid"
               THEN [pc |-> "constructed", keyFile |-> keyFile, privateKey |-> TRUE]
               ELSE [pc |-> "failed", keyFile |-> keyFile, privateKey |-> FALSE]
    /\ UNCHANGED routeVars
    /\ UNCHANGED tokenVars
    /\ UNCHANGED <<serviceVars, clientVars>>

\* index.ts: app.listen
Listen ==
    /\ boot.pc = "constructed"
    /\ boot' = [boot EXCEPT !.pc = "listening"]
    /\ UNCHANGED routeVars
    /\ UNCHANGED tokenVars
    /\ UNCHANGED <<serviceVars, clientVars>>

RoutesIdle ==
    /\ store = [i \in Ids |-> NoPayment]
    /\ gateway = [i \in Ids |-> NoResource]
    /\ nextKey = 0
    /\ req = [r \in Reqs |-> Idle]
    /\ creation = [l \in Logicals |-> "new"]
    /\ served = 0
    /\ out = Idle

\* another user of the service
OtherUser == "auth0|b"

\* the item and the gateway resource of a payment the other user has made
OtherId == MaxCreates

OtherPayment ==
    [userId |-> OtherUser, paymentId |-> OtherId, amount |-> 50,
     currency |-> "GBP", reference |-> "ref", status |-> "authorization_required",
     createdAt |-> 1, updatedAt |-> 1,
     paymentLink |-> [payment_id |-> OtherId, resource_token |-> TRUE],
     trueLayerData |-> [id |-> OtherId, status |-> "authorization_required",
                        failure_reason |-> "none", resource_token |-> TRUE],
     canRetry |-> FALSE]

\* the table holds a payment of the other user, made with the first
\* idempotency key; the server starts
TwoUsers ==
    /\ store = [i \in Ids |-> IF i = OtherId THEN OtherPayment ELSE NoPayment]
    /\ gateway = [i \in Ids |-> IF i = OtherId
                                 THEN [status |-> "authorization_required",
                                       failure_reason |-> "none", key |-> 1,
                                       logical |-> 0]
                                 ELSE NoResource]
    /\ nextKey = 1
    /\ req = [r \in Reqs |-> Idle]
    /\ creation = [l \in Logicals |-> "new"]
    /\ served = 0
    /\ out = Idle
    /\ TokenIdle /\ ServiceIdle /\ ClientIdle /\ boot = NotStarted

Init == RoutesIdle /\ TokenIdle /\ ServiceIdle /\ ClientIdle /\ boot = NotStarted

\* the server is up and the browser loads the page, with or without the
\* parameters of a return from the hosted payment page
PageLoaded ==
    /\ RoutesIdle /\ TokenIdle /\ ServiceIdle
    /\ boot = [pc |-> "listening", keyFile |-> "valid", privateKey |-> TRUE]
    /\ \E landing \in LandingUrls : Client(landing)

\* the service object is constructed and the server listens
Constructed ==
    /\ RoutesIdle /\ TokenIdle /\ ServiceIdle /\ ClientIdle
    /\ boot = [pc |-> "listening", keyFile |-> "valid", privateKey |-> TRUE]

Next ==
    \/ \E keyFile \in KeyFiles : Construct(keyFile)
    \/ Listen
    \/ \E r \in Reqs, status \in StatusFilters : ListPayments(r, status)
    \/ \E r \in Reqs, searchTerm \in SearchTerms : SearchPayments(r, searchTerm)
    \/ \E r \in Reqs, days \in Days : PaymentStats(r, days)
    \/ \E r \in Reqs, body \in Bodies, l \in Logicals : CreateStart(r, body, l)
    \/ \E r \in Reqs : CreatePost(r)
    \/ \E r \in Reqs : CreatePut(r)
    \/ \E r \in Reqs, id \in Ids : RefreshStart(r, id)
    \/ \E r \in Reqs : RefreshPoll(r)
    \/ \E r \in Reqs : RefreshSleep(r)
    \/ \E r \in Reqs : RefreshUpdate(r)
    \/ \E r \in Reqs, id \in Ids : GetStart(r, id)
    \/ \E r \in Reqs : GetFetch(r)
    \/ \E r \in Reqs : GetUpdate(r)
    \/ \E r \in Reqs, id \in Ids : DeleteStart(r, id)
    \/ \E r \in Reqs : DeleteItem(r)
    \/ \E id \in Ids : GatewayAdvance(id)

Spec == Init /\ [][Next]_vars

\* every attempt of a refresh comes to an outcome, every delay elapses and
\* every write is answered
SpecPolling ==
    /\ Init /\ [][Next]_vars
    /\ \A r \in Reqs : /\ WF_vars(RefreshPoll(r))
                       /\ WF_vars(RefreshSleep(r))
                       /\ WF_vars(RefreshUpdate(r))

SpecIsolation == TwoUsers /\ [][Next]_vars

SpecToken == Constructed /\ [][NextToken]_vars

SpecService == Constructed /\ [][NextService]_vars

SpecDashboard == PageLoaded /\ [][NextDashboard]_vars

\* Auth0 finishes loading, every promise settles and every effect that is
\* due runs; nothing obliges the user to click or the session to change
SpecDashboardFair ==
    /\ PageLoaded /\ [][NextDashboard]_vars
    /\ WF_vars(\E authenticated \in BOOLEAN : Auth0Loaded(authenticated))
    /\ WF_vars(InitToken)
    /\ WF_vars(SilentResolved \/ \E error \in SilentErrors : SilentRejected(error))
    /\ WF_vars(\E resolved \in BOOLEAN : PopupSettled(resolved))
    /\ WF_vars(MountEffect)
    /\ WF_vars(TokenEffect)
    /\ WF_vars(ReturnEffect)
    /\ WF_vars(\E outcome \in RefreshOutcomes : RefreshAnswered(outcome))
    /\ WF_vars(\E ok \in BOOLEAN : ListAnswered(ok))
    /\ WF_vars(\E ok \in BOOLEAN : FetchAnswered(ok))

(***************************************************************************)
(* Properties of the status refresh                                        *)
(***************************************************************************)
Refreshing(r) == req[r].kind = "refresh" /\ req[r].pc # "idle"

\* C1: when the gateway's status differs from the stored one for the first
\* time on attempt k, the refresh has made exactly k getPayment calls and k-1
\* delays, makes no further call (only the write is left), and answers 200
\* with the new status.
ReconciliationConvergence ==
    /\ \A r \in Reqs : (Refreshing(r) /\ req[r].changedAt # 0) =>
          /\ req[r].pc = "update"
          /\ req[r].calls = req[r].changedAt
          /\ req[r].delays = req[r].changedAt - 1
          /\ req[r].mappedStatus = req[r].trueLayerPayment.status
    /\ (out.kind = "refresh" /\ out.changedAt # 0) =>
          /\ out.changedAt \in 1..maxAttempts
          /\ out.calls = out.changedAt
          /\ out.delays = out.changedAt - 1
          /\ out.resp.code = 200
          /\ out.resp.status = out.mappedStatus
          /\ out.resp.status # out.originalStatus
          /\ ~out.resp.canRetry

\* a refresh that saw the change on its last attempt has answered
ConvergedOnLastAttempt ==
    out.kind = "refresh" /\ out.changedAt = maxAttempts /\ out.resp.code = 200

\* C2: a refresh whose 4 attempts are used up, the last one answered with the
\* status unchanged, answers 200 with the unchanged status and the advisory
\* (statusMessage / canRetry), not with an error.
ReconciliationExhaustion ==
    (out.kind = "refresh" /\ out.calls = maxAttempts /\ out.last = "ok"
       /\ out.changedAt = 0) =>
        /\ out.resp.code = 200
        /\ out.resp.canRetry
        /\ out.resp.status = out.originalStatus
        /\ out.resp.thrown = ""
        /\ out.delays = maxAttempts - 1

\* a refresh has used up its attempts without seeing a change
Exhausted ==
    /\ out.kind = "refresh" /\ out.calls = maxAttempts /\ out.last = "ok"
    /\ out.changedAt = 0 /\ out.resp.canRetry

\* C3 as stated: a failed getPayment ends the refresh at once, in error.
HardErrorEndsLoop ==
    /\ \A r \in Reqs : Refreshing(r) => req[r].last # "error"
    /\ (out.kind = "refresh" /\ out.last = "error") => out.resp.code = 500

\* C3 amended: a getPayment failure on an attempt before the 4th is followed
\* by the delay and the next attempt; a failure on the 4th attempt ends the
\* refresh in error (500), and a refresh ends in error only so.
HardErrorEndsLoopOnLastAttempt ==
    /\ \A r \in Reqs : (Refreshing(r) /\ req[r].last = "error") =>
          /\ req[r].calls < maxAttempts
          /\ \/ req[r].pc = "sleep" /\ req[r].attempt = req[r].calls
             \/ req[r].pc = "poll" /\ req[r].attempt = req[r].calls + 1
                   /\ req[r].delays = req[r].calls
    /\ (out.kind = "refresh" /\ out.last = "error") =>
          /\ out.calls = maxAttempts
          /\ out.resp.code = 500
          /\ out.resp.cause \in Causes
    /\ (out.kind = "refresh" /\ out.resp.code = 500) =>
          out.last = "error" /\ out.calls = maxAttempts

\* a refresh is at the attempt that follows a failed one
RetryingAfterError ==
    \E r \in Reqs : Refreshing(r) /\ req[r].last = "error" /\ req[r].pc = "poll"

(***************************************************************************)
(* Properties of the gateway client                                        *)
(***************************************************************************)
\* C7: the error a failed createPayment or getPayment surfaces tells its cause
\* (token exchange, 4xx, 5xx/network) from the other two: no other cause
\* would have surfaced the same error.
DistinctErrorKinds ==
    out.resp.cause # "none" =>
        \A c \in Causes \ {out.resp.cause} :
            /\ out.kind \in {"refresh", "get"} =>
                   GetPaymentError(c) # out.resp.thrown
            /\ out.kind = "create" =>
                   \A f \in CreateFailures :
                       f.cause = c => CreatePaymentError(f.title) # out.resp.thrown

\* C8: every logical creation has at most one resource at the gateway,
\* however often its POST was sent again after a failure.
IdempotentCreation ==
    \A l \in Logicals :
        Cardinality({i \in Ids : gateway[i].status # "none" /\ gateway[i].logical = l}) <= 1

\* C9: mapPaymentStatus gives back the gateway's status for each of the six
\* values and for failed with any failure_reason; every status in the table,
\* in a write on its way and in a response is the one of the gateway response
\* it was taken from, and a stored 'failed' is the gateway's 'failed'.
StatusMappingFidelity ==
    /\ \A st \in PaymentStatus, fr \in FailureReasons \cup {"none"} :
          mapPaymentStatus([id |-> 1, status |-> st, failure_reason |-> fr,
                            resource_token |-> FALSE]) = st
    /\ \A i \in Ids : store[i] # NoPayment =>
          /\ store[i].status \in PaymentStatus
          /\ store[i].status = store[i].trueLayerData.status
          /\ store[i].status = "failed" =>
                /\ gateway[i].status = "failed"
                /\ store[i].trueLayerData.failure_reason = gateway[i].failure_reason
    /\ \A r \in Reqs : req[r].pc \in {"update", "put"} =>
          /\ req[r].pc = "update" => req[r].mappedStatus = req[r].trueLayerPayment.status
          /\ req[r].pc = "put" => req[r].payment.status = req[r].payment.trueLayerData.status
    /\ out.resp.status # "none" => out.resp.status \in PaymentStatus

\* a cancelled payment is stored as failed
CancelledStoredAsFailed ==
    \E i \in Ids : /\ store[i].status = "failed"
                   /\ store[i].trueLayerData.failure_reason = "canceled"

(***************************************************************************)
(* Properties of the stored status                                         *)
(***************************************************************************)
Rank(s) ==
    CASE s = "authorization_required" -> 1
      [] s = "authorizing" -> 2
      [] s = "authorized" -> 3
      [] s = "executed" -> 4
      [] s = "settled" -> 5
      [] s = "failed" -> 6

\* C10: the stored status of a payment only moves forward along
\* authorization_required, authorizing, authorized, executed, settled, or to
\* failed, and never leaves settled or failed.
StoredStatusOnlyForward ==
    [][\A i \in Ids : (store[i] # NoPayment /\ store'[i] # NoPayment) =>
          IF store[i].status \in {"settled", "failed"}
          THEN store'[i].status = store[i].status
          ELSE Rank(store'[i].status) >= Rank(store[i].status)]_vars

(***************************************************************************)
(* Properties of the token cache                                           *)
(***************************************************************************)
\* C4: at most one token exchange is in flight at a time (callers that find
\* no valid token share one exchange).
SingleFlight ==
    Cardinality({c \in Callers : call[c].pc = "exchanging"}) <= 1

\* C5: a getAccessToken call made before the receipt of the last token plus
\* its lifetime less 60 s returns that token from the cache and sends no
\* token request.
TokenReuse ==
    [][\A c \in Callers :
          (/\ call[c].pc = "idle"
           /\ \/ call'[c].pc = "exchanging"
              \/ got' # got /\ got'.caller = c /\ call' = call
           /\ issued.token # 0
           /\ now < issued.at + (issued.expires_in - 60) * 1000)
          => /\ exchanges' = exchanges
             /\ got'.kind = "returned"
             /\ got'.cached
             /\ got'.token = issued.token]_vars

\* two calls 1 second apart with a 4-hour token: one exchange
ReusedAfterOneSecond ==
    /\ got.kind = "returned" /\ got.cached
    /\ issued.expires_in = 14400
    /\ got.at = issued.at + 1000
    /\ exchanges = 1

\* C6 as stated: every token is returned strictly before its cached expiry,
\* which lies before the gateway-reported expiry.
NeverExpiredLease ==
    /\ got.kind = "returned" => got.at < got.expiresAt
    /\ issued.token # 0 => tokenExpiresAt < issued.at + issued.expires_in * 1000

\* C6 amended: a token returned from the cache is returned strictly before
\* its cached expiry; the cached expiry is 60 s before the gateway-reported
\* one (receipt + expires_in); a token not from the cache is the one of an
\* exchange completed in that call, returned before its gateway-reported
\* expiry.
LeaseValidWhenCached ==
    /\ (got.kind = "returned" /\ got.cached) => got.at < got.expiresAt
    /\ issued.token # 0 =>
          /\ accessToken = issued.token
          /\ tokenExpiresAt = issued.at + issued.expires_in * 1000 - 60000
    /\ (got.kind = "returned" /\ ~got.cached) =>
          /\ got.token = issued.token
          /\ got.at = issued.at
          /\ got.expiresAt = tokenExpiresAt
          /\ got.at < issued.at + issued.expires_in * 1000

\* a token is returned from the cache some time after it was received
ReturnedFromCacheLater ==
    got.kind = "returned" /\ got.cached /\ got.at > issued.at

(***************************************************************************)
(* Properties of the stored record                                         *)
(***************************************************************************)
\* handler r ends with this step, having been at the write `pc` of a request
\* of one of `kinds` for payment i
Lands(r, i, kinds, pc) ==
    /\ req[r].id = i /\ req[r].kind \in kinds /\ req[r].pc = pc
    /\ req'[r].pc = "idle"

\* C11 as stated: an existing record is changed by refresh-status only.
OnlyRefreshMutates ==
    [][\A i \in Ids :
          (store[i] # NoPayment /\ store'[i] # NoPayment /\ store'[i] # store[i])
          => \E r \in Reqs : Lands(r, i, {"refresh"}, "update")]_vars

\* C11 amended: the table is written only by the put of a create, by the
\* updatePaymentStatus of a refresh-status or of a GET /:id, and by the
\* delete of a DELETE /:id; an existing record is changed only by the
\* updatePaymentStatus of a refresh-status or of a GET /:id; GET /,
\* GET /search and GET /stats write nothing.
OnlyStatusSyncMutates ==
    [][\A i \in Ids : store'[i] # store[i] =>
          /\ \E r \in Reqs : \/ Lands(r, i, {"create"}, "put")
                            \/ Lands(r, i, {"refresh", "get"}, "update")
                            \/ Lands(r, i, {"delete"}, "delete")
          /\ (store[i] # NoPayment /\ store'[i] # NoPayment) =>
                \E r \in Reqs : Lands(r, i, {"refresh", "get"}, "update")]_vars

\* a GET /:id has written the gateway's status to the record
WrittenByGet ==
    /\ out.kind = "get" /\ out.mappedStatus # "none"
    /\ store[out.id].status = out.mappedStatus
    /\ store[out.id].status # out.originalStatus

UpdatedAtFollowsStatus ==
    [][\A i \in Ids : (store[i] # NoPayment /\ store'[i] # NoPayment) =>
          /\ store'[i].updatedAt # store[i].updatedAt =>
                \/ store'[i].status # store[i].status
                \/ store'[i].trueLayerData # store[i].trueLayerData
          /\ store'[i].status # store[i].status =>
                store'[i].updatedAt > store[i].updatedAt]_vars

NoKeyNoService ==
    /\ boot.keyFile \in {"missing", "malformed"} =>
          /\ boot.pc = "failed"
          /\ ~boot.privateKey
          /\ served = 0
          /\ out = Idle
          /\ \A r \in Reqs : req[r] = Idle
    /\ boot.pc \in {"constructed", "listening"} =>
          boot.keyFile = "valid" /\ boot.privateKey
    /\ (served > 0 \/ \E r \in Reqs : req[r] # Idle) => boot.pc = "listening"

\* the start-up has failed on a key file that does not parse
StartupFailed == boot.pc = "failed" /\ boot.keyFile = "malformed"

(***************************************************************************)
(* Properties of the creation                                              *)
(***************************************************************************)
\* C17: the record a successful create makes has the id and the status of
\* the gateway's response, and a paymentLink for that id exactly when the
\* response carries a resource_token; that record is the one put in the table
\* and the one answered with 201.
CreateResult ==
    [][\A r \in Reqs : req[r].kind = "create" =>
          /\ (req[r].pc = "post" /\ req'[r].pc = "put") =>
                LET p == req'[r].payment
                    d == p.trueLayerData
                IN  /\ d.id = req'[r].id
                    /\ d.status = gateway'[d.id].status
                    /\ p.paymentId = d.id
                    /\ p.status = d.status
                    /\ d.resource_token =>
                          /\ p.paymentLink # NoLink
                          /\ p.paymentLink.payment_id = d.id
                    /\ ~d.resource_token => p.paymentLink = NoLink
          /\ (req[r].pc = "put" /\ req'[r].pc = "idle") =>
                LET p == req[r].payment
                IN  /\ store'[p.paymentId] = p
                    /\ out'.resp.code = 201
                    /\ out'.resp.status = p.status]_vars

\* a create has answered 201 and its record carries a link
CreatedWithLink ==
    /\ out.kind = "create" /\ out.resp.code = 201
    /\ store[out.id].paymentLink # NoLink
    /\ store[out.id].status = "authorization_required"

\* C18: a status update of refresh-status or GET /:id that lands on a record
\* leaves its userId, paymentId, amount, currency, reference, createdAt and
\* paymentLink as they are and sets its status, updatedAt and gateway data to
\* those of the update; landing on a key that holds no record any more, it
\* sets the key, status, updatedAt and gateway data and no other field.
UpdateKeepsIdentity ==
    [][\A i \in Ids, r \in Reqs : Lands(r, i, {"refresh", "get"}, "update") =>
          /\ store'[i].status = req[r].mappedStatus
          /\ store'[i].updatedAt = req[r].updatedAt
          /\ store'[i].trueLayerData = req[r].trueLayerPayment
          /\ store'[i].amount = store[i].amount
          /\ store'[i].currency = store[i].currency
          /\ store'[i].reference = store[i].reference
          /\ store'[i].createdAt = store[i].createdAt
          /\ store'[i].paymentLink = store[i].paymentLink
          /\ store'[i].userId = getUserId
          /\ store'[i].paymentId = i
          /\ store[i] # NoPayment =>
                /\ store'[i].userId = store[i].userId
                /\ store'[i].paymentId = store[i].paymentId
          /\ \A j \in Ids \ {i} : store'[j] = store[j]]_vars

\* a record has been updated since its creation and is the payment created
UpdatedSinceCreation ==
    \E i \in Ids : /\ store[i].createdAt # 0
                   /\ store[i].updatedAt > store[i].createdAt
                   /\ store[i].amount = 50
                   /\ store[i].reference = "ref"
                   /\ store[i].status # "authorization_required"

(***************************************************************************)
(* Properties of the gateway calls                                         *)
(***************************************************************************)
\* C15: one invocation of createPayment or getPayment sends at most one
\* request to the payments API and, through getAccessToken, at most one
\* token request, however it ends: it sends the API request once unless the
\* token request failed, and it sends a token request only when it found no
\* valid token.
NoInternalRetry ==
    /\ \A c \in Callers :
          /\ svc[c].requests <= 1 /\ svc[c].exchanges <= 1
          /\ svc[c].pc = "token" => svc[c].requests = 0 /\ svc[c].exchanges = 1
          /\ svc[c].pc = "request" => svc[c].requests = 1
    /\ svcOut.pc = "done" =>
          /\ svcOut.requests <= 1 /\ svcOut.exchanges <= 1
          /\ svcOut.cause = "auth" => svcOut.requests = 0 /\ svcOut.exchanges = 1
          /\ svcOut.cause # "auth" => svcOut.requests = 1

\* an invocation has thrown on an unavailable gateway after one token
\* request and one API request
ThrewOnUnavailable ==
    /\ svcOut.pc = "done" /\ svcOut.outcome = "threw"
    /\ svcOut.cause = "unavailable"
    /\ svcOut.requests = 1 /\ svcOut.exchanges = 1


\* C19: every getPayments or refreshPaymentStatus request of the Dashboard is
\* sent in a state where tokenReady is true, and carries the Authorization
\* header
RequestsOnlyWhenTokenReady ==
    api.sent.api # "none" => api.sent.tokenReady /\ api.sent.header

UserIsolation ==
    /\ store[OtherId] = OtherPayment
    /\ \A r \in Reqs : req[r].payment.userId # OtherUser
    /\ (out.kind \in {"refresh", "get", "delete"} /\ out.id = OtherId)
          => out.resp.code = 404
    /\ OtherId \notin out.resp.items
    /\ out.kind = "create" => out.id # OtherId

\* the user has a payment of their own and was refused the deletion of the
\* other user's
RefusedOthersPayment ==
    /\ out.kind = "delete" /\ out.id = OtherId /\ out.resp.code = 404
    /\ \E i \in Ids : store[i].userId = getUserId

\* C22: the cached token and its expiry change only together, in the one step
\* that takes both from the response of one exchange, also while other
\* exchanges are in flight; and a call that returns a token returns the
\* cached one, whose expiry is the cached expiry.
LeaseNeverHalfUpdated ==
    [][/\ (accessToken' # accessToken \/ tokenExpiresAt' # tokenExpiresAt) =>
             \E c \in Callers, expires_in \in Lifetimes :
                /\ call[c].pc = "exchanging"
                /\ accessToken' = call[c].n
                /\ tokenExpiresAt' = ExpiresAt(now, expires_in)
                /\ issued' = [at |-> now, expires_in |-> expires_in,
                              token |-> call[c].n]
       /\ (got' # got /\ got'.kind = "returned") =>
             /\ got'.token = accessToken'
             /\ got'.expiresAt = tokenExpiresAt'
             /\ accessToken' = issued'.token
             /\ tokenExpiresAt' = ExpiresAt(issued'.at, issued'.expires_in)]_vars

\* an exchange was answered while one sent before it is still in flight
AnsweredWhileEarlierInFlight ==
    /\ got.kind = "returned" /\ ~got.cached
    /\ accessToken = got.token
    /\ \E c \in Callers : call[c].pc = "exchanging" /\ call[c].n < got.token

\* C23: whatever the gateway answers on each attempt, a refresh-status
\* request makes at most 4 getPayment calls and at most 3 delays, waits only
\* when an attempt is left, and comes to its response.
BoundedPolling ==
    /\ [](/\ \A r \in Reqs : Refreshing(r) =>
                /\ req[r].calls <= 4
                /\ req[r].delays <= 3
                /\ req[r].delays <= req[r].calls
                /\ req[r].pc = "sleep" => req[r].calls < 4
          /\ out.kind = "refresh" =>
                /\ out.calls <= 4
                /\ out.delays <= 3
                /\ out.delays < out.calls \/ out.calls = 0
                /\ out.resp.code \in {200, 404, 500})
    /\ \A r \in Reqs : Refreshing(r) ~> ~Refreshing(r)

\* a refresh has used all its attempts and delays, the last attempt failing
PolledToTheCeiling ==
    /\ out.kind = "refresh" /\ out.calls = 4 /\ out.delays = 3
    /\ out.last = "error" /\ out.resp.code = 500

\* C24: a DELETE /:id removes a record only if the status persisted at the
\* moment of the deletion is not authorized, executed or settled, whatever
\* refresh-status or GET /:id requests run beside it.
DeleteActsOnPersistedStatus ==
    [][\A r \in Reqs, i \in Ids :
          (Lands(r, i, {"delete"}, "delete") /\ store[i] # NoPayment) =>
             store[i].status \notin {"authorized", "executed", "settled"}]_vars

\* C25: a refresh-status that answers 200, and beside which no request has
\* touched the payment (the record is as the handler read it and no other
\* handler is at work on it), answers with the status of its last gateway
\* fetch, which succeeded, and that status is the one persisted.
ResponseIsFetchedAndPersisted ==
    [][\A r \in Reqs, i \in Ids :
          (/\ req[r].kind = "refresh" /\ req[r].id = i
           /\ req[r].pc \in {"poll", "update"} /\ req'[r].pc = "idle"
           /\ out'.resp.code = 200
           /\ store[i] = req[r].payment
           /\ \A r2 \in Reqs \ {r} : req[r2].pc = "idle" \/ req[r2].id # i)
          => /\ out'.last = "ok"
             /\ out'.resp.status =
                   mapPaymentStatus(IF req[r].pc = "update"
                                    THEN req[r].trueLayerPayment
                                    ELSE Resource(i))
             /\ out'.resp.status = store'[i].status]_vars

\* a refresh that ran alone after the creation has answered with a new status
RefreshedAlone ==
    /\ out.kind = "refresh" /\ out.resp.code = 200 /\ out.changedAt # 0
    /\ served = 2
    /\ \A r \in Reqs : req[r].pc = "idle"
    /\ store[out.id].status = out.resp.status
    /\ gateway[out.id].status = out.resp.status

\* C26: a POST / whose body lacks amount, currency or reference, or whose
\* amount is not positive, is answered 400 with no gateway call and no write;
\* one whose gateway call fails is answered 500 with no write; and an item
\* appears in the table only under an id the gateway has given to a payment
\* it created.
FailedCreateWritesNothing ==
    [][/\ \A r \in Reqs, body \in Bodies, l \in Logicals :
             (/\ \/ body.amount <= 0
                 \/ body.currency = ""
                 \/ body.reference = ""
              /\ CreateStart(r, body, l))
             => /\ out'.kind = "create" /\ out'.resp.code = 400
                /\ out'.calls = 0
                /\ store' = store /\ gateway' = gateway /\ nextKey' = nextKey
       /\ (out' # out /\ out'.kind = "create" /\ out'.resp.code # 201)
             => /\ store' = store
                /\ out'.resp.code \in {400, 500}
                /\ out'.resp.code = 500 => out'.last = "error"
       /\ \A i \in Ids :
             (store[i] = NoPayment /\ store'[i] # NoPayment)
             => /\ store'[i].paymentId = i
                /\ gateway[i].status # "none"]_vars

\* the gateway made the payment but the call failed: 500, and no record
CreateFailedAfterGateway ==
    /\ out.kind = "create" /\ out.resp.code = 500
    /\ \E i \in Ids : gateway[i].status # "none"
    /\ \A i \in Ids : store[i] = NoPayment

\* C27: the response of a refresh-status carries the advisory (statusMessage /
\* canRetry) exactly when it is a 200 whose status is the one the handler read
\* before polling; no other response carries it, and no stored item ever does.
AdvisoryIffUnchanged ==
    /\ out.kind = "refresh" =>
          (out.resp.canRetry <=>
              (out.resp.code = 200 /\ out.resp.status = out.originalStatus))
    /\ out.kind # "refresh" => ~out.resp.canRetry
    /\ \A i \in Ids : ~store[i].canRetry

\* a refresh answered with the advisory, and one has answered a changed
\* status before: the item is stored without the advisory
AdvisoryNotStored ==
    /\ out.kind = "refresh" /\ out.resp.canRetry
    /\ store[out.id] # NoPayment
    /\ store[out.id].status # "authorization_required"
    /\ ~store[out.id].canRetry

\* C28: a Dashboard that shows the 'Updating payment status...' spinner
\* (isRefreshingFromPayment, set on mount when the URL has payment_id or
\* from_payment) comes to a state without it, whether the token arrives or
\* not and whether the refresh request succeeds or not.
SpinnerEventuallyCleared ==
    (dash.mounted /\ dash.isRefreshingFromPayment)
        ~> ~(dash.mounted /\ dash.isRefreshingFromPayment)

\* C29: once the provider's effect has run for the present Auth0 state,
\* tokenReady is true, or a token is set in the API client, only if the user
\* is authenticated; and tokenReady is true only if the API client holds the
\* Authorization header.  Token requests of earlier runs may still be pending.
TokenOnlyWhileAuthenticated ==
    /\ provider.tokenReady => api.header
    /\ (provider.seen = InitDeps /\ (provider.tokenReady \/ api.header))
          => auth0.isAuthenticated

\* C30: a getAccessToken call throws only when its own exchange has failed,
\* and then the cached token and expiry are as before; a call that finds no
\* valid cached token sends a token request, whatever failed earlier.
FailedExchangeLeavesLease ==
    [][/\ (got' # got /\ got'.kind = "threw") =>
             /\ call[got'.caller].pc = "exchanging"
             /\ accessToken' = accessToken
             /\ tokenExpiresAt' = tokenExpiresAt
             /\ issued' = issued
       /\ \A c \in Callers :
             (call[c].pc = "idle" /\ ~CachedTokenValid
              /\ (call'[c] # call[c] \/ (got' # got /\ got'.caller = c)))
             => /\ call'[c].pc = "exchanging"
                /\ exchanges' = exchanges + 1
                /\ got' = got]_vars

\* the caller whose exchange failed beside a cached token is exchanging again
ExchangingAgainAfterFailure ==
    /\ got.kind = "threw"
    /\ call[got.caller].pc = "exchanging"
    /\ accessToken # 0

====
